---- MODULE Spec2Model ----
(***************************************************************************)
(* Model of the autograder (autograde/common.py, autograde/grade.py):      *)
(*   - the literal extractor (_extract_dict_literal_from_code,             *)
(*     extract_lab_summary) over tokenised code cells;                     *)
(*   - the grading run of main(): per submission read_notebook,            *)
(*     extract_lab_summary, validate_lab01, validate_report, append.       *)
(* Python values are records tagged by type (field t).  Numbers are small  *)
(* integers (float() is exact on them), plus the float infinity ("inf",    *)
(* the literal 1e999) and an int beyond the float range ("huge").          *)
(* Scores are in hundredths (100 is 1.0, 70 is 0.7, 5 is 0.05).            *)
(***************************************************************************)
EXTENDS Integers, Sequences, FiniteSets, TLC

VARIABLES
    pc,         \* position of main(): start, read, validate, report, append, done, crashed
    lab,        \* args.lab
    spec,       \* load_spec(lab): the ValidationSpec
    results,    \* main's results list: the status of each appended GradeResult
    any_fail,   \* main's any_fail
    exit_code,  \* 0, 1 (SystemExit(1)), or -1 while running / after a traceback
    gr,         \* the GradeResult of the submission being graded
    nb,         \* the notebook read for it
    summary,    \* extract_lab_summary(nb)
    exc,        \* the exception that escaped main ("None" when none)
    xpc,        \* position of extract_lab_summary: loop, eval, balanced, returned
    cellIdx,    \* cells examined so far
    raw,        \* m.group(1) of the cell being examined
    d,          \* the value extract_lab_summary returns (or None so far)
    matched,    \* history: code cells examined so far that matched the pattern
    firstRef    \* history: what the first matching cell yields when taken alone

vars == <<pc, lab, spec, results, any_fail, exit_code, gr, nb, summary, exc,
          xpc, cellIdx, raw, d, matched, firstRef>>

mainVars == <<pc, lab, spec, results, any_fail, exit_code, gr, nb, summary, exc>>
extractVars == <<xpc, cellIdx, raw, d, matched, firstRef>>

---------------------------------------------------------------------------
(* Bounds *)

MaxSubs == 2        \* notebooks on the command line
MaxFields == 2      \* keys present in one LAB_SUMMARY
MaxLen == 6         \* tokens in one code cell
MaxCells == 2       \* cells in one notebook (extractor)

---------------------------------------------------------------------------
(* Python values *)

Int_(n) == [t |-> "int", n |-> n]
Bool_(b) == [t |-> "bool", n |-> IF b THEN 1 ELSE 0]
Str_(s) == [t |-> "str", s |-> s]
Inf_ == [t |-> "inf", n |-> 0]
Huge_ == [t |-> "huge", n |-> 0]
List_(items) == [t |-> "list", items |-> items]
Dict_(f) == [t |-> "dict", d |-> f]
Set_ == [t |-> "set", n |-> 0]
None_ == [t |-> "None", n |-> 0]

EmptyMap == [k \in {} |-> None_]

Get(f, k, dflt) == IF k \in DOMAIN f THEN f[k] ELSE dflt

\* bool(x) for the values a summary can hold under "__parse_error__"
Truthy(x) ==
    CASE x.t = "None" -> FALSE
      [] x.t \in {"int", "bool"} -> x.n # 0
      [] x.t = "str" -> Len(x.s) > 0
      [] x.t = "list" -> Len(x.items) > 0
      [] x.t = "dict" -> DOMAIN x.d # {}
      [] OTHER -> TRUE

\* isinstance(x, (int, float)): bool is a subclass of int
IsIntOrFloat(x) == x.t \in {"int", "bool", "inf", "huge"}

is_number(x) == IsIntOrFloat(x) /\ x.t # "bool"

IsListOrTuple(x) == x.t = "list"

\* float(v) raises OverflowError on an int beyond the float range
FloatRaises(v) == v.t = "huge"

\* int(v) raises OverflowError on a float infinity
IntRaises(v) == v.t = "inf"

\* lo <= float(v) <= hi, for a number v on which float() returns
InRange(v, lo, hi) == v.t = "int" /\ lo <= v.n /\ v.n <= hi

\* int(v) < m, for a number v on which int() returns
IntLess(v, m) == v.t = "int" /\ v.n < m

\* float(a) >= float(b), for numbers on which float() returns
FloatGeq(a, b) ==
    CASE a.t = "inf" -> TRUE
      [] b.t = "inf" -> FALSE
      [] OTHER -> a.n >= b.n

\* str.strip().lower() on strings held as sequences of characters
Lower(c) == CASE c = "A" -> "a" [] c = "B" -> "b" [] OTHER -> c

RECURSIVE LStrip(_)
LStrip(s) == IF s # <<>> /\ Head(s) = " " THEN LStrip(Tail(s)) ELSE s

RECURSIVE RStrip(_)
RStrip(s) ==
    IF s # <<>> /\ s[Len(s)] = " " THEN RStrip(SubSeq(s, 1, Len(s) - 1)) ELSE s

StripLower(s) == LET u == RStrip(LStrip(s)) IN [i \in 1..Len(u) |-> Lower(u[i])]

---------------------------------------------------------------------------
(* GradeResult and the generic validators of common.py *)

Full == 100
Floor == 70
Penalty == 5

Max(a, b) == IF a >= b THEN a ELSE b

\* GradeResult(student=..., path=..., lab=...): PASS, 1.0, [], []; exc is the
\* exception raised while the record is being filled ("None": none)
NewResult(student) ==
    [student |-> student, status |-> "PASS", score |-> Full,
     errors |-> <<>>, warnings |-> <<>>, exc |-> "None"]

AddError(r, m) == [r EXCEPT !.errors = Append(@, m)]
AddWarning(r, m) == [r EXCEPT !.warnings = Append(@, m)]
Raise(r, e) == [r EXCEPT !.exc = e]

RECURSIVE require_keys(_, _)
require_keys(dd, keys) ==
    IF keys = <<>> THEN <<>>
    ELSE (IF Head(keys) \notin DOMAIN dd
          THEN << <<"missing_key", Head(keys)>> >> ELSE <<>>)
         \o require_keys(dd, Tail(keys))

\* what require_number_range returns: None, a message, or an exception
require_number_range(dd, key, lo, hi) ==
    IF key \notin DOMAIN dd THEN [kind |-> "None"]
    ELSE IF ~is_number(dd[key]) THEN [kind |-> "err", msg |-> <<"not_numeric", key>>]
    ELSE IF FloatRaises(dd[key]) THEN [kind |-> "raise", msg |-> <<"OverflowError", key>>]
    ELSE IF ~InRange(dd[key], lo, hi)
         THEN [kind |-> "err", msg |-> <<"out_of_range", key>>]
    ELSE [kind |-> "None"]

---------------------------------------------------------------------------
(* The checks of validate_lab01, in source order.  Each takes the record   *)
(* as the previous statement left it; once an exception is raised nothing  *)
(* further runs.                                                           *)

DefaultRange == <<0, 1>>

CheckRequiredKeys(s, sp, r) ==
    IF r.exc # "None" THEN r
    ELSE [r EXCEPT !.errors = @ \o require_keys(s, Get(sp, "required_keys", <<>>))]

CheckRange(s, rules, key, rkey, r) ==
    IF r.exc # "None" THEN r
    ELSE LET rg == Get(rules, rkey, DefaultRange)
             e == require_number_range(s, key, rg[1], rg[2])
         IN CASE e.kind = "None" -> r
              [] e.kind = "err" -> AddError(r, e.msg)
              [] e.kind = "raise" -> Raise(r, e.msg[1])

CheckCleanShape(s, rules, r) ==
    IF r.exc # "None" \/ "clean_shape" \notin DOMAIN s THEN r
    ELSE LET sh == s["clean_shape"] IN
         IF ~IsListOrTuple(sh) \/ Len(sh.items) # 2
         THEN AddError(r, <<"bad_shape", "clean_shape">>)
         ELSE LET nrows == sh.items[1] IN
              IF ~is_number(nrows) THEN AddError(r, <<"not_numeric", "clean_shape[0]">>)
              ELSE IF IntRaises(nrows) THEN Raise(r, "OverflowError")
              ELSE IF IntLess(nrows, Get(rules, "min_rows_clean", 1))
                   THEN AddWarning(r, <<"few_rows", "clean_shape">>)
              ELSE r

CheckEffect(s, r) ==
    IF r.exc # "None" \/ "effect" \notin DOMAIN s THEN r
    ELSE LET eff == s["effect"] IN
         IF eff.t # "dict" \/ "name" \notin DOMAIN eff.d \/ "value" \notin DOMAIN eff.d
         THEN AddError(r, <<"bad_shape", "effect">>)
         ELSE IF ~is_number(eff.d["value"])
              THEN AddError(r, <<"not_numeric", "effect['value']">>)
              ELSE r

CheckCI(s, rules, r) ==
    IF r.exc # "None" \/ "bootstrap_ci_diff" \notin DOMAIN s THEN r
    ELSE LET ci == s["bootstrap_ci_diff"] IN
         IF ~IsListOrTuple(ci) \/ Len(ci.items) # 2
         THEN AddError(r, <<"bad_shape", "bootstrap_ci_diff">>)
         ELSE LET lo == ci.items[1]
                  hi == ci.items[2]
              IN IF ~(is_number(lo) /\ is_number(hi))
                 THEN AddError(r, <<"not_numeric", "bootstrap_ci_diff">>)
                 ELSE IF ~Get(rules, "ci_requires_order", TRUE) THEN r
                 ELSE IF FloatRaises(lo) \/ FloatRaises(hi) THEN Raise(r, "OverflowError")
                 ELSE IF FloatGeq(lo, hi)
                      THEN AddError(r, <<"bad_order", "bootstrap_ci_diff">>)
                      ELSE r

\* set(filters) raises TypeError when an element is unhashable (a list, a dict)
Hashable(x) == x.t \notin {"list", "dict", "set"}

CheckDashboardFilters(dash, rules, r) ==
    LET filters == Get(dash, "filters", List_(<<>>)) IN
    IF filters.t # "list" THEN AddError(r, <<"not_list", "dashboard['filters']">>)
    ELSE IF \E i \in 1..Len(filters.items) : ~Hashable(filters.items[i])
         THEN Raise(r, "TypeError")
    ELSE LET have == {filters.items[i] : i \in 1..Len(filters.items)}
             missing == {Str_(f) : f \in Get(rules, "dashboard_filters_required", {})} \ have
         IN IF missing # {} THEN AddWarning(r, <<"filters_missing", "dashboard">>) ELSE r

CheckDashboardCharts(dash, rules, r) ==
    IF r.exc # "None" THEN r
    ELSE LET charts == Get(dash, "charts", List_(<<>>)) IN
         IF charts.t # "list" THEN AddError(r, <<"not_list", "dashboard['charts']">>)
         ELSE IF Len(charts.items) < Get(rules, "dashboard_charts_min", 0)
              THEN AddWarning(r, <<"few_charts", "dashboard">>)
              ELSE r

CheckDashboard(s, rules, r) ==
    IF r.exc # "None" \/ "dashboard" \notin DOMAIN s THEN r
    ELSE LET dash == s["dashboard"] IN
         IF dash.t # "dict" THEN AddError(r, <<"not_dict", "dashboard">>)
         ELSE CheckDashboardCharts(dash.d, rules, CheckDashboardFilters(dash.d, rules, r))

CheckStudent(s, r) ==
    IF r.exc # "None" THEN r
    ELSE IF "student" \in DOMAIN s /\ s["student"].t = "str"
            /\ StripLower(s["student"].s) # StripLower(r.student)
         THEN AddWarning(r, <<"student_mismatch", "student">>)
         ELSE r

Score(w) == Max(Floor, Full - Penalty * w)

FinalStatusUnconditionalPass(r) ==
    IF r.exc # "None" THEN r
    ELSE [r EXCEPT !.status = "PASS", !.score = Score(Len(r.warnings))]

FinalStatus(r) ==
    IF r.exc # "None" THEN r
    ELSE IF r.errors # <<>> THEN [r EXCEPT !.status = "FAIL", !.score = 0]
    ELSE [r EXCEPT !.status = "PASS", !.score = Score(Len(r.warnings))]

\* the body of validate_lab01 after the two early returns
RunChecks(s, sp, r) ==
    LET rules == Get(sp, "rules", EmptyMap)
        r1 == CheckRequiredKeys(s, sp, r)
        r2 == CheckRange(s, rules, "pvalue", "pvalue_range", r1)
        r3 == CheckRange(s, rules, "alpha", "alpha_range", r2)
        r4 == CheckCleanShape(s, rules, r3)
        r5 == CheckEffect(s, r4)
        r6 == CheckCI(s, rules, r5)
        r7 == CheckDashboard(s, rules, r6)
        r8 == CheckStudent(s, r7)
    IN FinalStatus(r8)

validate_lab01(sm, sp, r) ==
    IF sm.t = "None"
    THEN [AddError(r, <<"not_found", "LAB_SUMMARY">>) EXCEPT !.status = "FAIL", !.score = 0]
    ELSE IF sm.t # "dict" THEN Raise(r, "AttributeError")
    ELSE IF Truthy(Get(sm.d, "__parse_error__", None_))
    THEN [AddError(r, <<"unparseable", "LAB_SUMMARY">>) EXCEPT !.status = "FAIL", !.score = 0]
    ELSE RunChecks(sm.d, sp, r)

---------------------------------------------------------------------------
(* validate_report and its helpers.  Markdown text is a sequence of tokens: *)
(* "T" a word the title regex matches, "w" any other word, "s" a space,    *)
(* "n" a newline.                                                          *)

IsSpace(c) == c \in {"s", "n"}

\* rx.search(src)
TitleMatches(src) == \E i \in 1..Len(src) : src[i] = "T"

RECURSIVE JoinTexts(_)
JoinTexts(texts) ==
    IF texts = <<>> THEN <<>>
    ELSE IF Len(texts) = 1 THEN texts[1]
    ELSE texts[1] \o <<"n", "n">> \o JoinTexts(Tail(texts))

RECURSIVE StripLeft(_)
StripLeft(s) == IF s # <<>> /\ IsSpace(Head(s)) THEN StripLeft(Tail(s)) ELSE s

RECURSIVE StripRight(_)
StripRight(s) ==
    IF s # <<>> /\ IsSpace(s[Len(s)]) THEN StripRight(SubSeq(s, 1, Len(s) - 1)) ELSE s

find_markdown_section_text(markdown) ==
    StripRight(StripLeft(JoinTexts(SelectSeq(markdown, TitleMatches))))

\* pieces of text.replace("\n", " ").split(" ") that are not blank
count_words(text) ==
    Cardinality({i \in 1..Len(text) :
                   ~IsSpace(text[i]) /\ (i = 1 \/ IsSpace(text[i - 1]))})

validate_report(book, sp, r) ==
    LET report_spec == Get(sp, "report", EmptyMap)
        has_title == "require_markdown_title_regex" \in DOMAIN report_spec
        min_words == Get(report_spec, "min_words_in_report_cell", 0)
    IN IF ~has_title \/ min_words <= 0 THEN r
       ELSE IF count_words(find_markdown_section_text(book.markdown)) < min_words
            THEN AddWarning(r, <<"short_report", "report">>)
            ELSE r

---------------------------------------------------------------------------
(* Inputs of a grading run *)

Keys == {"pvalue", "alpha", "clean_shape", "effect", "bootstrap_ci_diff",
         "dashboard", "student"}

Nums == -1..3

NumberOpts ==
    {Int_(n) : n \in Nums} \cup {Bool_(TRUE), Str_(<<"x">>), Huge_}

ShapeOpts ==
    {Str_(<<"x">>), List_(<<Int_(3)>>)}
    \cup {List_(<<a, Int_(3)>>) :
            a \in {Int_(0), Int_(1), Int_(3), Bool_(TRUE), Str_(<<"x">>), Inf_}}

EffectOpts ==
    {Str_(<<"x">>),
     Dict_([value |-> Int_(1)]),
     Dict_([name |-> Str_(<<"x">>)])}
    \cup {Dict_([name |-> Str_(<<"x">>), value |-> v]) :
            v \in {Int_(1), Bool_(FALSE), Str_(<<"x">>)}}

CIOpts ==
    {Str_(<<"x">>), List_(<<Int_(1), Int_(2), Int_(3)>>),
     List_(<<Bool_(TRUE), Int_(2)>>), List_(<<Int_(1), Bool_(FALSE)>>),
     List_(<<Int_(1), Int_(2)>>), List_(<<Int_(2), Int_(2)>>),
     List_(<<Int_(2), Int_(1)>>), List_(<<Huge_, Int_(1)>>)}

FilterOpts ==
    {Str_(<<"x">>), List_(<<Str_(<<"f", "1">>)>>), List_(<<Str_(<<"f", "1">>), Str_(<<"f", "2">>)>>),
     List_(<<Dict_([col |-> Str_(<<"f", "1">>)])>>)}

ChartOpts == {Str_(<<"x">>), List_(<<Str_(<<"c">>), Str_(<<"c">>)>>)}

DashOpts ==
    {Str_(<<"x">>), Dict_(EmptyMap)}
    \cup {Dict_([filters |-> f]) : f \in FilterOpts}
    \cup {Dict_([charts |-> c]) : c \in ChartOpts}
    \cup {Dict_([filters |-> List_(<<Str_(<<"f", "1">>)>>), charts |-> Str_(<<"x">>)]),
          Dict_([filters |-> Str_(<<"x">>), charts |-> List_(<<Str_(<<"c">>)>>)])}

StudentOpts == {Str_(<<" ", "a", "n", "a", " ">>), Str_(<<"B", "o", "b">>), Int_(1)}

Opts(k) ==
    CASE k = "pvalue" -> NumberOpts
      [] k = "alpha" -> NumberOpts
      [] k = "clean_shape" -> ShapeOpts
      [] k = "effect" -> EffectOpts
      [] k = "bootstrap_ci_diff" -> CIOpts
      [] k = "dashboard" -> DashOpts
      [] k = "student" -> StudentOpts

\* the dict literals with at most n of the keys
Extend(f) == UNION {{f @@ (k :> v) : v \in Opts(k)} : k \in Keys \ DOMAIN f}

RECURSIVE Mappings(_)
Mappings(n) ==
    IF n = 0 THEN {EmptyMap}
    ELSE LET prev == Mappings(n - 1) IN prev \cup UNION {Extend(f) : f \in prev}

ParseError == Dict_(("__parse_error__" :> Bool_(TRUE)))


\* what extract_lab_summary can hand to the validator
Summaries == {None_, Set_, ParseError} \cup {Dict_(f) : f \in Mappings(MaxFields)}

Markdowns ==
    {<<>>,
     << <<"T", "s", "w">> >>,
     << <<"T", "n", "w", "s", "w">> >>,
     << <<"T", "s", "w">>, <<"w", "s", "w">>, <<"s", "T", "n">> >>}

\* a readable notebook: what its code cells yield, and its markdown cells
Notebooks == [summary : Summaries, markdown : Markdowns]

NoNotebook == [summary |-> None_, markdown |-> <<>>]

StrictRules ==
    [pvalue_range |-> <<1, 2>>, min_rows_clean |-> 2, ci_requires_order |-> FALSE,
     dashboard_filters_required |-> {<<"f", "1">>, <<"f", "2">>},
     dashboard_charts_min |-> 2]

ReportSpec == [require_markdown_title_regex |-> "T", min_words_in_report_cell |-> 3]

\* specs/<lab>.json
Specs ==
    {req @@ rul @@ rep :
        req \in {EmptyMap, [required_keys |-> <<"pvalue", "alpha">>]},
        rul \in {EmptyMap, [rules |-> StrictRules]},
        rep \in {EmptyMap, [report |-> ReportSpec]}}

Labs == {"lab01", "lab02"}

Students == {<<"A", "n", "a">>}

---------------------------------------------------------------------------
(* main() *)

\* what the results list keeps of an appended GradeResult: its status
Entry(r) == r.status

Idle == NewResult(<<>>)

MainInit ==
    /\ pc = "start"
    /\ lab \in Labs
    /\ spec \in Specs
    /\ results = <<>>
    /\ any_fail = FALSE
    /\ exit_code = -1
    /\ gr = Idle
    /\ nb = NoNotebook
    /\ summary = None_
    /\ exc = "None"

\* for nb_path in nb_paths: student, GradeResult(...)
NextPath ==
    /\ pc = "start"
    /\ Len(results) < MaxSubs
    /\ \E st \in Students : gr' = NewResult(st)
    /\ pc' = "read"
    /\ UNCHANGED <<lab, spec, results, any_fail, exit_code, nb, summary, exc>>
    /\ UNCHANGED extractVars

\* read_notebook raises: FAIL, score 0, one error, appended, continue
ReadFails ==
    /\ pc = "read"
    /\ LET r == [AddError(gr, <<"unreadable", "notebook">>)
                   EXCEPT !.status = "FAIL", !.score = 0]
       IN /\ gr' = r
          /\ results' = Append(results, Entry(r))
    /\ any_fail' = TRUE
    /\ pc' = "start"
    /\ UNCHANGED <<lab, spec, exit_code, nb, summary, exc>>
    /\ UNCHANGED extractVars

\* read_notebook returns; summary = extract_lab_summary(nb, ...)
ReadOk ==
    /\ pc = "read"
    /\ \E book \in Notebooks : nb' = book /\ summary' = book.summary
    /\ pc' = "validate"
    /\ UNCHANGED <<lab, spec, results, any_fail, exit_code, gr, exc>>
    /\ UNCHANGED extractVars

\* lab == "lab01": validate_lab01(summary, spec, gr)
ValidateLab01 ==
    /\ pc = "validate"
    /\ lab = "lab01"
    /\ LET r == validate_lab01(summary, spec, gr) IN
         /\ gr' = r
         /\ exc' = r.exc
         /\ pc' = IF r.exc # "None" THEN "crashed" ELSE "report"
    /\ UNCHANGED <<lab, spec, results, any_fail, exit_code, nb, summary>>
    /\ UNCHANGED extractVars

\* validate_report(nb, spec, gr)
ValidateReport ==
    /\ pc = "report"
    /\ gr' = validate_report(nb, spec, gr)
    /\ pc' = "append"
    /\ UNCHANGED <<lab, spec, results, any_fail, exit_code, nb, summary, exc>>
    /\ UNCHANGED extractVars

\* else: no validator for this lab
NoValidator ==
    /\ pc = "validate"
    /\ lab # "lab01"
    /\ gr' = [AddError(gr, <<"no_validator", lab>>) EXCEPT !.status = "FAIL", !.score = 0]
    /\ pc' = "append"
    /\ UNCHANGED <<lab, spec, results, any_fail, exit_code, nb, summary, exc>>
    /\ UNCHANGED extractVars

\* results.append(gr.__dict__); if gr.status == "FAIL": any_fail = True.
\* gr keeps naming the appended record until the next iteration rebinds it.
AppendResult ==
    /\ pc = "append"
    /\ results' = Append(results, Entry(gr))
    /\ any_fail' = (any_fail \/ gr.status = "FAIL")
    /\ nb' = NoNotebook
    /\ summary' = None_
    /\ pc' = "start"
    /\ UNCHANGED <<lab, spec, exit_code, gr, exc>>
    /\ UNCHANGED extractVars

\* after the loop: safe_json_dump; if any_fail: raise SystemExit(1)
Finish ==
    /\ pc = "start"
    /\ pc' = "done"
    /\ exit_code' = IF any_fail THEN 1 ELSE 0
    /\ UNCHANGED <<lab, spec, results, any_fail, gr, nb, summary, exc>>
    /\ UNCHANGED extractVars

Next ==
    \/ NextPath
    \/ ReadFails
    \/ ReadOk
    \/ ValidateLab01
    \/ ValidateReport
    \/ NoValidator
    \/ AppendResult
    \/ Finish

---------------------------------------------------------------------------
(* The extractor of common.py.  A code cell's source is a sequence of      *)
(* tokens: "A" the text `LAB_SUMMARY =`, "{" and "}" the brace characters, *)
(* "k" a key with its colon, "v" a scalar with its comma, "p" any other    *)
(* text (a print call, a statement), "n" a newline.  A nested literal      *)
(* carries no comma, so it can only be the last entry of its mapping.      *)

Tokens == {"A", "{", "}", "k", "v", "p", "n"}

IsWs(c) == c = "n"

RECURSIVE SkipWs(_, _)
SkipWs(code, i) ==
    IF i <= Len(code) /\ IsWs(code[i]) THEN SkipWs(code, i + 1) ELSE i

\* `}` then \s*$ under MULTILINE: the rest of the line is blank
EndsLine(code, e) == e = Len(code) \/ code[e + 1] = "n"

\* the closing braces a match starting at i can end on
Closers(code, i) ==
    LET j == SkipWs(code, i + 1) IN
    IF code[i] = "A" /\ j <= Len(code) /\ code[j] = "{"
    THEN {e \in (j + 1)..Len(code) : code[e] = "}" /\ EndsLine(code, e)}
    ELSE {}

SetMax(S) == CHOOSE x \in S : \A y \in S : y <= x
SetMin(S) == CHOOSE x \in S : \A y \in S : x <= y

\* pattern.search(code): leftmost start, greedy `.*`; raw is m.group(1)
pattern_search(code) ==
    LET starts == {i \in 1..Len(code) : Closers(code, i) # {}} IN
    IF starts = {} THEN [found |-> FALSE, raw |-> <<>>]
    ELSE LET i == SetMin(starts) IN
         [found |-> TRUE, raw |-> SubSeq(code, SkipWs(code, i + 1), SetMax(Closers(code, i)))]

\* ast.literal_eval on brace-delimited text: the index after the parsed value,
\* 0 when the text is no literal
RECURSIVE ParseSet(_, _)
ParseSet(toks, i) ==
    IF i > Len(toks) THEN 0
    ELSE IF toks[i] = "v" THEN ParseSet(toks, i + 1)
    ELSE IF toks[i] = "}" THEN i + 1
    ELSE 0

RECURSIVE ParseEntries(_, _)
RECURSIVE ParseBrace(_, _)
ParseEntries(toks, i) ==
    IF i > Len(toks) THEN 0
    ELSE IF toks[i] = "}" THEN i + 1
    ELSE IF toks[i] # "k" \/ i + 1 > Len(toks) THEN 0
    ELSE IF toks[i + 1] = "v" THEN ParseEntries(toks, i + 2)
    ELSE IF toks[i + 1] = "{"
         THEN LET nx == ParseBrace(toks, i + 1) IN
              IF nx = 0 \/ nx > Len(toks) \/ toks[nx] # "}" THEN 0 ELSE nx + 1
    ELSE 0

ParseBrace(toks, i) ==
    IF i + 1 > Len(toks) THEN 0
    ELSE IF toks[i + 1] = "v" THEN ParseSet(toks, i + 1)
    ELSE ParseEntries(toks, i + 1)

Literal(kind, toks) == [t |-> kind, lit |-> toks]
NoneValue == Literal("None", <<>>)
ParseErrorValue == Literal("dict", <<"__parse_error__">>)

NotWs(c) == ~IsWs(c)

literal_eval(text) ==
    LET toks == SelectSeq(text, NotWs) IN
    IF toks # <<>> /\ toks[1] = "{" /\ ParseBrace(toks, 1) = Len(toks) + 1
    THEN [ok |-> TRUE, value |-> Literal(IF toks[2] = "v" THEN "set" ELSE "dict", toks)]
    ELSE [ok |-> FALSE, value |-> NoneValue]

\* raw.find("{"): 0 when absent
FindBrace(text) ==
    IF \E i \in 1..Len(text) : text[i] = "{"
    THEN SetMin({i \in 1..Len(text) : text[i] = "{"}) ELSE 0

\* the balanced scan: the index of the brace that brings depth back to 0,
\* 0 when the text ends first (end is None)
RECURSIVE Scan(_, _, _)
Scan(text, i, depth) ==
    IF i > Len(text) THEN 0
    ELSE IF text[i] = "{" THEN Scan(text, i + 1, depth + 1)
    ELSE IF text[i] = "}"
         THEN (IF depth - 1 = 0 THEN i ELSE Scan(text, i + 1, depth - 1))
    ELSE Scan(text, i + 1, depth)

\* the fallback as section 4.3 of the design words it: a span that cannot be
\* delimited (depth never back to zero) yields the unparseable sentinel.
\* Used only to state C5; the code's fallback is BalancedFallback below.
BalancedFallbackSentinel(text) ==
    LET start == FindBrace(text)
        end == IF start = 0 THEN 0 ELSE Scan(text, start, 0)
    IN IF start = 0 \/ end = 0 THEN ParseErrorValue
       ELSE LET g == literal_eval(SubSeq(text, start, end)) IN
            IF g.ok THEN g.value ELSE ParseErrorValue

\* the except branch of _extract_dict_literal_from_code (common.py 53-73)
BalancedFallback(text) ==
    LET start == FindBrace(text)
        end == IF start = 0 THEN 0 ELSE Scan(text, start, 0)
    IN IF start = 0 \/ end = 0 THEN NoneValue
       ELSE LET g == literal_eval(SubSeq(text, start, end)) IN
            IF g.ok THEN g.value ELSE ParseErrorValue

Sources == UNION {[1..n -> Tokens] : n \in 0..MaxLen}

Cells ==
    {[cell_type |-> "markdown", source |-> <<>>]}
    \cup {[cell_type |-> "code", source |-> src] : src \in Sources}

\* what section 4.3 of the design says one matching block yields: its literal
\* (greedy span, else first balanced span), else the unparseable sentinel
BlockOutcome(text) ==
    LET g == literal_eval(text) IN
    IF g.ok THEN g.value ELSE BalancedFallbackSentinel(text)

ExtractInit ==
    /\ xpc = "loop"
    /\ cellIdx = 0
    /\ raw = <<>>
    /\ d = NoneValue
    /\ matched = 0
    /\ firstRef = NoneValue

\* for cell in nb.cells: skip non-code cells; pattern.search(code)
ExamineCell ==
    /\ xpc = "loop"
    /\ cellIdx < MaxCells
    /\ \E cell \in Cells :
         LET m == pattern_search(cell.source) IN
         IF cell.cell_type # "code" \/ ~m.found
         THEN /\ cellIdx' = cellIdx + 1
              /\ UNCHANGED <<xpc, raw, d, matched, firstRef>>
         ELSE /\ raw' = m.raw
              /\ xpc' = "eval"
              /\ matched' = matched + 1
              /\ firstRef' = IF matched = 0 THEN BlockOutcome(m.raw) ELSE firstRef
              /\ UNCHANGED <<cellIdx, d>>
    /\ UNCHANGED mainVars

\* try: return ast.literal_eval(raw)
EvalGreedy ==
    /\ xpc = "eval"
    /\ LET g == literal_eval(raw) IN
         IF g.ok THEN /\ d' = g.value
                      /\ xpc' = "returned"
                      /\ raw' = <<>>
                 ELSE /\ xpc' = "balanced"
                      /\ UNCHANGED <<d, raw>>
    /\ UNCHANGED <<cellIdx, matched, firstRef>>
    /\ UNCHANGED mainVars

\* except: the first balanced span; a None here sends the loop to the next cell
BalancedStep ==
    /\ xpc = "balanced"
    /\ LET v == BalancedFallback(raw) IN
         IF v = NoneValue THEN /\ xpc' = "loop"
                               /\ cellIdx' = cellIdx + 1
                               /\ UNCHANGED d
                          ELSE /\ d' = v
                               /\ xpc' = "returned"
                               /\ UNCHANGED cellIdx
    /\ raw' = <<>>
    /\ UNCHANGED <<matched, firstRef>>
    /\ UNCHANGED mainVars

\* the cells are exhausted: return None
NoMoreCells ==
    /\ xpc = "loop"
    /\ xpc' = "returned"
    /\ UNCHANGED <<cellIdx, raw, d, matched, firstRef>>
    /\ UNCHANGED mainVars

NextExtract ==
    \/ ExamineCell
    \/ EvalGreedy
    \/ BalancedStep
    \/ NoMoreCells

MainIdle ==
    /\ pc = "idle"
    /\ lab = "lab01"
    /\ spec = EmptyMap
    /\ results = <<>>
    /\ any_fail = FALSE
    /\ exit_code = -1
    /\ gr = Idle
    /\ nb = NoNotebook
    /\ summary = None_
    /\ exc = "None"

ExtractIdle ==
    /\ xpc = "idle"
    /\ cellIdx = 0
    /\ raw = <<>>
    /\ d = NoneValue
    /\ matched = 0
    /\ firstRef = NoneValue

Init == MainInit /\ ExtractIdle

Spec == Init /\ [][Next]_vars

InitExtract == MainIdle /\ ExtractInit

SpecExtract == InitExtract /\ [][NextExtract]_vars

---------------------------------------------------------------------------
(* Properties *)

\* the summary is a mapping and not the unparseable sentinel
Parsed == summary.t = "dict" /\ ~Truthy(Get(summary.d, "__parse_error__", None_))

\* validate_lab01 has just ended on this submission, by return or by exception
Validated == lab = "lab01" /\ pc \in {"report", "crashed"}

\* validate_lab01 has just returned on this submission
Returned == lab = "lab01" /\ pc = "report"

Count(seq, m) == Cardinality({i \in 1..Len(seq) : seq[i] = m})

\* the errors recorded about one of the given fields, missing-key errors aside
ErrorsAbout(r, keys) ==
    {i \in 1..Len(r.errors) : r.errors[i][2] \in keys /\ r.errors[i][1] # "missing_key"}

\* C1: every GradeResult main appends (unreadable notebook, no validator,
\* lab01 validated and report-checked) has status FAIL exactly when its error
\* list is non-empty, and score 0 when FAIL.  gr is the record about to be
\* appended (pc = "append") or the one appended last.
C1_StatusMatchesErrors ==
    (pc = "append" \/ (pc \in {"start", "done"} /\ results # <<>>)) =>
        /\ (gr.status = "FAIL") <=> (gr.errors # <<>>)
        /\ gr.status = "FAIL" => gr.score = 0
        /\ gr.status \in {"PASS", "FAIL"}
        /\ pc # "append" => results[Len(results)] = gr.status

\* C1 witness: a batch of two, a passing lab01 result and then a lab01 result
\* failed by validate_lab01 with two errors
C1_Witness ==
    /\ pc = "start"
    /\ lab = "lab01"
    /\ results = <<"PASS", "FAIL">>
    /\ Len(gr.errors) = 2
    /\ gr.errors[1][1] # "unreadable"
    /\ gr.score = 0

\* C2: a lab01 submission whose final GradeResult has no errors is PASS with
\* score max(0.7, 1.0 - 0.05 * number of warnings in that final result)
C2_ScoreCountsAllWarnings ==
    (pc = "append" /\ lab = "lab01" /\ gr.errors = <<>>) =>
        /\ gr.status = "PASS"
        /\ gr.score = Score(Len(gr.warnings))

\* C3: when the summary is None or the unparseable sentinel the final
\* GradeResult is FAIL, score 0, with exactly one error and no warning
C3_NoSummaryOneErrorOnly ==
    (pc = "append" /\ lab = "lab01" /\ summary \in {None_, ParseError}) =>
        /\ gr.status = "FAIL"
        /\ gr.score = 0
        /\ Len(gr.errors) = 1
        /\ gr.warnings = <<>>

\* C4: the extractor returns None only when no code cell matched the pattern;
\* a cell that matched and could not be parsed yields the sentinel
C4_MatchNeverYieldsNone ==
    (xpc = "returned" /\ matched > 0) => d # NoneValue

\* C5: when two or more code cells match, the value returned is what the
\* first of them yields alone (its literal, or the sentinel)
C5_FirstMatchWins ==
    (xpc = "returned" /\ matched >= 2) => d = firstRef

\* C6: whatever the extractor returned for a readable notebook, no exception
\* escapes the per-submission step of main
C6_NoExceptionEscapes == exc = "None" /\ pc # "crashed"

\* C7: for a parsed summary validate_lab01 records exactly one missing-key
\* error per absent required key, none for a present one, and the status is
\* FAIL when a required key is absent
C7_MissingKeysFail ==
    (Validated /\ Parsed) =>
        LET req == Get(spec, "required_keys", <<>>) IN
        /\ \A i \in 1..Len(req) :
             Count(gr.errors, <<"missing_key", req[i]>>)
               = IF req[i] \in DOMAIN summary.d THEN 0 ELSE 1
        /\ (\E i \in 1..Len(req) : req[i] \notin DOMAIN summary.d) => gr.status = "FAIL"

\* C7 on the runs in which validate_lab01 returns
C7_MissingKeysFailWhenReturned ==
    (Returned /\ Parsed) =>
        LET req == Get(spec, "required_keys", <<>>) IN
        /\ \A i \in 1..Len(req) :
             Count(gr.errors, <<"missing_key", req[i]>>)
               = IF req[i] \in DOMAIN summary.d THEN 0 ELSE 1
        /\ (\E i \in 1..Len(req) : req[i] \notin DOMAIN summary.d) => gr.status = "FAIL"

\* the fields of the summary that hold a boolean where a number is expected,
\* each with the keys its error is recorded under
BoolFields(s) ==
    {ks \in {{"pvalue"}, {"alpha"}, {"clean_shape", "clean_shape[0]"},
             {"effect", "effect['value']"}, {"bootstrap_ci_diff"}} :
       \/ /\ ks = {"pvalue"} /\ "pvalue" \in DOMAIN s /\ s["pvalue"].t = "bool"
       \/ /\ ks = {"alpha"} /\ "alpha" \in DOMAIN s /\ s["alpha"].t = "bool"
       \/ /\ "clean_shape" \in ks /\ "clean_shape" \in DOMAIN s
          /\ s["clean_shape"].t = "list"
          /\ Len(s["clean_shape"].items) >= 1
          /\ s["clean_shape"].items[1].t = "bool"
       \/ /\ "effect" \in ks /\ "effect" \in DOMAIN s
          /\ s["effect"].t = "dict"
          /\ "value" \in DOMAIN s["effect"].d
          /\ s["effect"].d["value"].t = "bool"
       \/ /\ ks = {"bootstrap_ci_diff"} /\ "bootstrap_ci_diff" \in DOMAIN s
          /\ s["bootstrap_ci_diff"].t = "list"
          /\ \E i \in 1..Len(s["bootstrap_ci_diff"].items) :
               i <= 2 /\ s["bootstrap_ci_diff"].items[i].t = "bool"}

\* C8: a boolean in a numeric position (pvalue, alpha, clean_shape[0],
\* effect['value'], an element of bootstrap_ci_diff) gets an error for that
\* field and the result is FAIL
C8_BooleanRejected ==
    (Validated /\ Parsed) =>
        \A ks \in BoolFields(summary.d) :
            ErrorsAbout(gr, ks) # {} /\ gr.status = "FAIL"

\* C8 on the runs in which validate_lab01 returns
C8_BooleanRejectedWhenReturned ==
    (Returned /\ Parsed) =>
        \A ks \in BoolFields(summary.d) :
            ErrorsAbout(gr, ks) # {} /\ gr.status = "FAIL"

\* the number of errors the claim expects about a range-checked field:
\* 0 when absent or on a boundary, 1 one unit outside; -1 where it says nothing
RangeExpectation(s, key, rg) ==
    IF key \notin DOMAIN s THEN 0
    ELSE IF s[key].t # "int" THEN -1
    ELSE IF s[key].n \in {rg[1], rg[2]} THEN 0
    ELSE IF s[key].n \in {rg[1] - 1, rg[2] + 1} THEN 1
    ELSE -1

RangeClaim(key, rkey) ==
    LET rg == Get(Get(spec, "rules", EmptyMap), rkey, DefaultRange)
        want == RangeExpectation(summary.d, key, rg)
    IN want # -1 =>
         /\ Cardinality(ErrorsAbout(gr, {key})) = want
         /\ Count(gr.errors, <<"out_of_range", key>>) = want

\* C9: pvalue and alpha on a boundary of their range give no error, one unit
\* outside exactly one out-of-range error, absent no range error
C9_RangeBoundaries ==
    (Validated /\ Parsed) =>
        RangeClaim("pvalue", "pvalue_range") /\ RangeClaim("alpha", "alpha_range")

\* C9 on the runs in which validate_lab01 returns
C9_RangeBoundariesWhenReturned ==
    (Returned /\ Parsed) =>
        RangeClaim("pvalue", "pvalue_range") /\ RangeClaim("alpha", "alpha_range")

\* what each check records when run alone on a fresh record
Alone(s, sp, st) ==
    LET z == NewResult(st)
        rules == Get(sp, "rules", EmptyMap)
    IN <<CheckRequiredKeys(s, sp, z),
         CheckRange(s, rules, "pvalue", "pvalue_range", z),
         CheckRange(s, rules, "alpha", "alpha_range", z),
         CheckCleanShape(s, rules, z),
         CheckEffect(s, z),
         CheckCI(s, rules, z),
         CheckDashboard(s, rules, z),
         CheckStudent(s, z)>>

RECURSIVE SumCount(_, _, _)
SumCount(recs, field, m) ==
    IF recs = <<>> THEN 0
    ELSE Count(Head(recs)[field], m) + SumCount(Tail(recs), field, m)

RECURSIVE SumLen(_, _)
SumLen(recs, field) ==
    IF recs = <<>> THEN 0 ELSE Len(Head(recs)[field]) + SumLen(Tail(recs), field)

Messages(recs, field) ==
    UNION {{recs[i][field][j] : j \in 1..Len(recs[i][field])} : i \in 1..Len(recs)}

AllChecksContribute ==
    LET a == Alone(summary.d, spec, gr.student) IN
    /\ \A f \in {"errors", "warnings"} :
         /\ Len(gr[f]) = SumLen(a, f)
         /\ \A m \in Messages(a, f) : Count(gr[f], m) = SumCount(a, f, m)
    /\ gr.status = IF SumLen(a, "errors") > 0 THEN "FAIL" ELSE "PASS"
    /\ gr.score = IF SumLen(a, "errors") > 0 THEN 0 ELSE Score(SumLen(a, "warnings"))

\* C10: for a parsed summary every check runs whatever the earlier ones
\* recorded and contributes what it records when run alone, so the errors and
\* warnings are the sum of the checks' own contributions in any order, and
\* status and score follow from them
C10_ChecksIndependent == (Validated /\ Parsed) => AllChecksContribute

\* C10 on the runs in which validate_lab01 returns
C10_ChecksIndependentWhenReturned == (Returned /\ Parsed) => AllChecksContribute

====
